---- MODULE Spec2Model ----
(***************************************************************************)
(* Model of the Spill bill splitter.                                       *)
(*                                                                         *)
(*   - the allocator: totalBillAmount and costBreakdown of SplitShareApp   *)
(*     (app/(tabs)/index.tsx), a pure function of extractedItems,          *)
(*     participants and itemAssignments;                                   *)
(*   - the extractor: processBillImage (utils/imageProcessing), in its two *)
(*     versions: schema A (object with items, cgst, sgst) and schema B     *)
(*     (array of items flagged isTax);                                     *)
(*   - the app: the event handlers of SplitShareApp and the completion of  *)
(*     handleProcessBill, each reading the state its render showed.        *)
(*                                                                         *)
(* Money is counted in cents.  Ids are numbers: an item id is the 1-based  *)
(* index the extractor gives it, a participant id is the clock reading it  *)
(* was created at (both are printed with toString, which is injective).    *)
(* The allocator divides, so its amounts are kept as exact fractions with  *)
(* the common denominator Unit: the amount a stands for a / Unit cents.    *)
(***************************************************************************)
EXTENDS Integers, Sequences, FiniteSets, TLC

VARIABLES
    \* ---- SplitShareApp state (useState hooks) ----
    appStep, billImageUri, extractedItems, participants, itemAssignments,
    isLoading,
    \* ---- what the last render showed, the last reading of the clock,
    \* ---- the extraction requests in flight ----
    view, now, outstanding,
    \* ---- memoised values of SplitShareApp (useMemo hooks) ----
    memo, totalBill, costs,
    \* ---- one invocation of processBillImage ----
    schema, apiKey, fileOk, pc, text, parsed, result, fileReads, modelCalls

stateVars == <<appStep, billImageUri, extractedItems, participants,
               itemAssignments, isLoading>>
uiVars    == <<stateVars, view, now, outstanding>>
memoVars  == <<memo, totalBill, costs>>
extractVars == <<schema, apiKey, fileOk, pc, text, parsed, result,
                 fileReads, modelCalls>>
vars      == <<uiVars, memoVars, extractVars>>

----------------------------------------------------------------------------
\* Bounds

MaxItems        == 2   \* items on a bill
MaxParticipants == 2   \* participants of a bill
MaxAssign       == 2   \* length of one item's assignment list
MaxTextLen      == 4   \* tokens of the model's reply
MaxTax          == 3   \* largest cgst / sgst, in cents
MaxClock        == 2   \* latest reading of the clock, in milliseconds
MaxRequests     == 2   \* extraction requests in flight

Prices == {1, 2}       \* item prices, in cents

\* Participant ids that may occur in an assignment list: those of the
\* participants that can exist, and one more that never belongs to anybody.
AssignIds == 1 .. (MaxParticipants + 1)

----------------------------------------------------------------------------
\* Arithmetic helpers

Max(a, b) == IF a >= b THEN a ELSE b

Abs(a) == IF a >= 0 THEN a ELSE -a

RECURSIVE Gcd(_, _)
Gcd(a, b) == IF b = 0 THEN a ELSE Gcd(b, a % b)

RECURSIVE LcmUpTo(_)
LcmUpTo(n) == IF n <= 1 THEN 1
              ELSE LET l == LcmUpTo(n - 1) IN (l * n) \div Gcd(l, n)

\* Every divisor the allocator uses is the length of an assignment list or
\* of the participant list, so every quotient is a multiple of 1 / Unit.
Unit == LcmUpTo(Max(MaxAssign, MaxParticipants))

\* Variant of Div: the quotient truncated to whole cents.
DivWholeCents(price, n) == (price \div n) * Unit

\* price / n, as a fraction over Unit (JavaScript's "/" on numbers)
Div(price, n) == (price * Unit) \div n

----------------------------------------------------------------------------
\* Sequences and JavaScript objects used as maps

RECURSIVE SeqsUpTo(_, _)
SeqsUpTo(S, n) ==
    IF n = 0 THEN {<<>>}
    ELSE LET shorter == SeqsUpTo(S, n - 1)
         IN  shorter \cup {Append(s, x) : s \in {t \in shorter : Len(t) = n - 1}, x \in S}

\* obj[key] || dflt
Get(obj, key, dflt) == IF key \in DOMAIN obj THEN obj[key] ELSE dflt

\* obj[key] = val
Put(obj, key, val) ==
    [k \in DOMAIN obj \cup {key} |-> IF k = key THEN val ELSE obj[k]]

EmptyObj == [k \in {} |-> 0]

RECURSIVE SumOver(_, _)
SumOver(f, S) == IF S = {} THEN 0
                 ELSE LET k == CHOOSE x \in S : TRUE
                      IN  f[k] + SumOver(f, S \ {k})

SumValues(obj) == SumOver(obj, DOMAIN obj)

----------------------------------------------------------------------------
\* The allocator

\* extractedItems.reduce((sum, item) => sum + item.price, 0)
RECURSIVE SumPrices(_)
SumPrices(items) ==
    IF items = <<>> THEN 0
    ELSE SumPrices(SubSeq(items, 1, Len(items) - 1)) + items[Len(items)].price

totalBillAmount(items) == SumPrices(items)

\* participants.forEach(p => costs[p.id] = 0)
RECURSIVE ZeroCosts(_, _)
ZeroCosts(acc, parts) ==
    IF parts = <<>> THEN acc
    ELSE ZeroCosts(Put(acc, Head(parts).id, 0), Tail(parts))

\* ids.forEach(pId => costs[pId] = (costs[pId] || 0) + share)
RECURSIVE AddShare(_, _, _)
AddShare(acc, ids, share) ==
    IF ids = <<>> THEN acc
    ELSE AddShare(Put(acc, Head(ids), Get(acc, Head(ids), 0) + share),
                  Tail(ids), share)

\* itemAssignments[item.id] || []
assignedTo(assign, item) == Get(assign, item.id, <<>>)

\* The first loop of costBreakdown: every item with a non-empty assignment
\* list is split evenly over the entries of that list.
RECURSIVE SplitAssigned(_, _, _)
SplitAssigned(acc, items, assign) ==
    IF items = <<>> THEN acc
    ELSE LET item == Head(items)
             to   == assignedTo(assign, item)
         IN  SplitAssigned(IF Len(to) > 0
                              THEN AddShare(acc, to, Div(item.price, Len(to)))
                              ELSE acc,
                           Tail(items), assign)

\* assignedItemIds
assignedItemIds(items, assign) ==
    {items[i].id : i \in {j \in DOMAIN items : Len(assignedTo(assign, items[j])) > 0}}

\* extractedItems.filter(item => !assignedItemIds.has(item.id))
unassignedItems(items, assign) ==
    SelectSeq(items, LAMBDA item : item.id \notin assignedItemIds(items, assign))

PartIds(parts) == [i \in DOMAIN parts |-> parts[i].id]

\* Variant of costBreakdown: assignedItemIds is never filled, so an assigned
\* item is also counted in the pool of unassigned items.
costBreakdownDoubleCount(items, parts, assign) ==
    LET zero     == ZeroCosts(EmptyObj, parts)
        assigned == SplitAssigned(zero, items, assign)
    IN  IF Len(items) > 0 /\ Len(parts) > 0
        THEN AddShare(assigned, PartIds(parts), Div(SumPrices(items), Len(parts)))
        ELSE assigned

costBreakdown(items, parts, assign) ==
    LET zero     == ZeroCosts(EmptyObj, parts)
        assigned == SplitAssigned(zero, items, assign)
        pool     == unassignedItems(items, assign)
    IN  IF Len(pool) > 0 /\ Len(parts) > 0
        THEN AddShare(assigned, PartIds(parts), Div(SumPrices(pool), Len(parts)))
        ELSE assigned

----------------------------------------------------------------------------
\* The extractor: the model's reply and JSON.parse
\*
\* The reply is a sequence of tokens.  "{" "}" "[" "]" are the brackets, "v"
\* is a run of JSON content without brackets (literals, keys, commas) and
\* "x" is prose that is no JSON (a sentence, a markdown fence).  JSONParse
\* accepts exactly the replies that are one JSON value; what the accepted
\* value holds (its fields, its elements) is drawn separately, see Parse.

Tokens == {"{", "}", "[", "]", "v", "x"}

Texts == SeqsUpTo(Tokens, MaxTextLen)

Closer(open) == IF open = "[" THEN "]" ELSE "}"

\* Index after the value that starts at s[i], or 0 when there is none.
RECURSIVE ParseValue(_, _)
RECURSIVE ParseContent(_, _, _)
ParseValue(s, i) ==
    IF i > Len(s) THEN 0
    ELSE IF s[i] = "v" THEN i + 1
    ELSE IF s[i] \in {"[", "{"} THEN ParseContent(s, i + 1, Closer(s[i]))
    ELSE 0

ParseContent(s, i, close) ==
    IF i > Len(s) THEN 0
    ELSE IF s[i] = close THEN i + 1
    ELSE LET j == ParseValue(s, i)
         IN  IF j = 0 THEN 0 ELSE ParseContent(s, j, close)

KindOf(tok) == IF tok = "[" THEN "array" ELSE IF tok = "{" THEN "object" ELSE "scalar"

\* JSON.parse(s): ok, with the kind of the value and whether it is an empty
\* array or object; or a SyntaxError.
JSONParse(s) ==
    IF ParseValue(s, 1) = Len(s) + 1
    THEN [ok |-> TRUE, kind |-> KindOf(s[1]), empty |-> (Len(s) = 2)]
    ELSE [ok |-> FALSE, kind |-> "SyntaxError", empty |-> FALSE]

Positions(s, tok) == {i \in DOMAIN s : s[i] = tok}

Least(S)    == CHOOSE i \in S : \A j \in S : i <= j
Greatest(S) == CHOOSE i \in S : \A j \in S : i >= j

NoSpan == <<0, 0>>

\* text.match(/\{[\s\S]*\}/) and text.match(/\[[\s\S]*\]/): the span from the
\* first opening bracket to the last closing bracket after it (the pattern is
\* greedy), or no match.
RegexMatch(s, open) ==
    LET opens  == Positions(s, open)
        closes == {j \in Positions(s, Closer(open)) : opens # {} /\ j > Least(opens)}
    IN  IF closes = {} THEN NoSpan ELSE <<Least(opens), Greatest(closes)>>

\* the bracket each version of processBillImage searches for
OpenOf(sch) == IF sch = "A" THEN "{" ELSE "["

ParseFailed == "Failed to parse model response as JSON"

\* The try/catch around JSON.parse: the whole text first, then the match.
ParseResponse(sch, s) ==
    LET direct == JSONParse(s)
        span   == RegexMatch(s, OpenOf(sch))
        second == JSONParse(SubSeq(s, span[1], span[2]))
    IN  IF direct.ok
        THEN [ok |-> TRUE, kind |-> direct.kind, empty |-> direct.empty,
              span |-> <<1, Len(s)>>, cause |-> "none"]
        ELSE IF span = NoSpan
        THEN [ok |-> FALSE, kind |-> "none", empty |-> FALSE,
              span |-> NoSpan, cause |-> ParseFailed]
        ELSE IF second.ok
        THEN [ok |-> TRUE, kind |-> second.kind, empty |-> second.empty,
              span |-> span, cause |-> "none"]
        ELSE [ok |-> FALSE, kind |-> "none", empty |-> FALSE,
              span |-> span, cause |-> "SyntaxError"]

----------------------------------------------------------------------------
\* The extractor: the parsed value and its normalisation

\* A BillItem
Item(i, price, shared) == [id |-> i, price |-> price, isShared |-> shared]

\* An element of an items array: an object with a price (and, in schema B,
\* possibly an isTax flag), or null.
RawItem(price, isTax) == [tag |-> "item", price |-> price, isTax |-> isTax]
NullItem == [tag |-> "null", price |-> 0, isTax |-> "absent"]

RawItemsA == {RawItem(p, "absent") : p \in Prices} \cup {NullItem}
RawItemsB == {RawItem(p, t) : p \in Prices, t \in {"absent", "true", "false"}}
                \cup {NullItem}

\* A field of the parsed object: absent, null, an array, or some other
\* truthy value (a number, a string, an object).
Field(tag, elems) == [tag |-> tag, elems |-> elems]
AbsentField == Field("absent", <<>>)
ItemsFields ==
    {AbsentField, Field("null", <<>>), Field("other", <<>>)}
        \cup {Field("array", e) : e \in SeqsUpTo(RawItemsA, MaxItems)}

\* cgst, sgst: absent, or a number of cents
Tax(tag, val) == [tag |-> tag, val |-> val]
AbsentTax == Tax("absent", 0)
TaxFields == {AbsentTax} \cup {Tax("num", n) : n \in 0 .. MaxTax}

Value(kind, span, elems, items, cgst, sgst) ==
    [kind |-> kind, span |-> span, elems |-> elems,
     items |-> items, cgst |-> cgst, sgst |-> sgst]

NotParsed == Value("none", NoSpan, <<>>, AbsentField, AbsentTax, AbsentTax)

\* The JavaScript values a reply of the given kind can denote.
ValuesOf(sch, r) ==
    IF r.kind = "scalar"
    THEN {Value(k, r.span, <<>>, AbsentField, AbsentTax, AbsentTax) :
            k \in {"null", "scalar"}}
    ELSE IF r.kind = "array"
    THEN {Value("array", r.span, e, AbsentField, AbsentTax, AbsentTax) :
            e \in IF r.empty THEN {<<>>}
                  ELSE SeqsUpTo(IF sch = "A" THEN RawItemsA ELSE RawItemsB, MaxItems) \ {<<>>}}
    ELSE IF r.empty
    THEN {Value("object", r.span, <<>>, AbsentField, AbsentTax, AbsentTax)}
    ELSE {Value("object", r.span, <<>>, i, c, g) :
            i \in ItemsFields, c \in TaxFields, g \in TaxFields}

\* Number.prototype.toFixed(2) of num / den cents, read back with unary +:
\* the nearest whole number of cents.  A value exactly halfway is rounded as
\* its binary representation falls, so both neighbours are possible.
ToFixed2(num, den) ==
    LET q == num \div den
        r == num % den
    IN  IF 2 * r < den THEN {q}
        ELSE IF 2 * r > den THEN {q + 1}
        ELSE {q, q + 1}

\* Variant of TaxTotal: sgst is left out.
TaxTotalCgstOnly(cgst, sgst) == cgst.val

\* (parsedResponse.cgst || 0) + (parsedResponse.sgst || 0)
TaxTotal(cgst, sgst) == cgst.val + sgst.val

\* The prices item.price + totalTaxPerItem can be rounded to, where
\* totalTaxPerItem = items.length > 0 ? (cgst + sgst) / items.length : 0
AdjustedPrices(price, tax, n) == ToFixed2(price * n + tax, n)

\* parsedResponse.items || []
ItemsOrEmpty(v) == IF v.kind = "object" /\ v.items.tag = "array"
                   THEN v.items.elems ELSE <<>>

\* Schema A: what lines 156-168 throw on
ThrowsA(v) ==
    \/ v.kind = "null"
    \/ v.kind = "object" /\ v.items.tag = "other"
    \/ \E i \in DOMAIN ItemsOrEmpty(v) : ItemsOrEmpty(v)[i].tag = "null"

\* Schema A: the bills lines 156-168 can return
BillsA(v) ==
    LET raw == ItemsOrEmpty(v)
        n   == Len(raw)
        tax == TaxTotal(v.cgst, v.sgst)
        all == UNION {AdjustedPrices(raw[i].price, tax, n) : i \in 1 .. n}
    IN  {[i \in 1 .. n |-> Item(i, out[i], FALSE)] :
           out \in {f \in [1 .. n -> all] :
                      \A i \in 1 .. n : f[i] \in AdjustedPrices(raw[i].price, tax, n)}}

\* Schema B: what lines 328-333 throw on
ThrowsB(v) ==
    \/ v.kind # "array"
    \/ \E i \in DOMAIN v.elems : v.elems[i].tag = "null"

\* Schema B: the bill lines 328-333 return
BillB(v) ==
    [i \in DOMAIN v.elems |->
        Item(i, v.elems[i].price, v.elems[i].isTax = "true")]

----------------------------------------------------------------------------
\* Values of the state

\* Bills as the extractor returns them: ids 1, 2, ..., n in array order.
ItemLists ==
    UNION { { [i \in 1 .. n |-> Item(i, f[i][1], f[i][2])] :
              f \in [1 .. n -> Prices \X BOOLEAN] } : n \in 0 .. MaxItems }

Participant(i) == [id |-> i, name |-> i]

\* Participant lists.  Names are pairwise distinct; an id is the clock's
\* reading when the participant was added, so besides the lists of distinct
\* ids there are the lists whose first two participants share one.
ParticipantLists ==
    { [i \in 1 .. n |-> Participant(i)] : n \in 0 .. MaxParticipants }
        \cup { [i \in 1 .. n |-> [id |-> Max(1, i - 1), name |-> i]] :
                  n \in 2 .. MaxParticipants }

\* Assignment lists.  costBreakdown adds the same share for every entry of a
\* list, whatever its position, so the lists are enumerated up to the order
\* of their entries: the lists of distinct ids in increasing order, and the
\* list that names the first participant's id twice.
IsIncreasing(s) == \A i \in 1 .. (Len(s) - 1) : s[i] < s[i + 1]

AssignLists ==
    {s \in SeqsUpTo(AssignIds, MaxAssign) : IsIncreasing(s)}
        \cup {<<p, p>> : p \in {q \in {1} : MaxAssign >= 2}}

\* Assignment objects over the ids of the given items; a key may be absent.
AssignmentsOf(items) ==
    UNION { [K -> AssignLists] : K \in SUBSET {items[i].id : i \in DOMAIN items} }

NoResult == [ok |-> FALSE, items |-> <<>>, message |-> <<>>]

\* The state a render closes over: the handlers created by a render read
\* these values, whatever the state has become since.
Snapshot ==
    [appStep |-> appStep, billImageUri |-> billImageUri,
     extractedItems |-> extractedItems, participants |-> participants,
     itemAssignments |-> itemAssignments, isLoading |-> isLoading]

\* the view is up to date, the clock has just started, no request in flight
Settled == view = Snapshot /\ now = 1 /\ outstanding = 0

ExtractorIdle ==
    /\ schema = "A" /\ apiKey = "valid" /\ fileOk = TRUE
    /\ pc = "idle" /\ text = <<>> /\ parsed = NotParsed /\ result = NoResult
    /\ fileReads = 0 /\ modelCalls = 0

----------------------------------------------------------------------------
\* The allocator applied to every input within the bounds

InitAlloc ==
    /\ appStep = "summary"
    /\ billImageUri = "uri"
    /\ isLoading = FALSE
    /\ extractedItems \in ItemLists
    /\ participants \in ParticipantLists
    /\ itemAssignments \in AssignmentsOf(extractedItems)
    /\ memo = "stale" /\ totalBill = 0 /\ costs = EmptyObj
    /\ ExtractorIdle
    /\ Settled

\* One render: both useMemo hooks are evaluated on the current state.
Render ==
    /\ memo = "stale"
    /\ memo' = "fresh"
    /\ totalBill' = totalBillAmount(extractedItems)
    /\ costs' = costBreakdown(extractedItems, participants, itemAssignments)
    /\ UNCHANGED <<uiVars, extractVars>>

NextAlloc == Render

SpecAlloc == InitAlloc /\ [][NextAlloc]_vars

----------------------------------------------------------------------------
\* Vocabulary of the allocator's properties

Rendered == memo = "fresh"

ItemIdx == DOMAIN extractedItems
NumParticipants == Len(participants)
ParticipantIds == {participants[i].id : i \in DOMAIN participants}

\* the assignment list of the i-th item, [] when it has none
ListOf(i) == IF extractedItems[i].id \in DOMAIN itemAssignments
             THEN itemAssignments[extractedItems[i].id] ELSE <<>>

PriceOf(i) == extractedItems[i].price

Count(list, id) == Cardinality({k \in DOMAIN list : list[k] = id})

\* sum of term[i] over the items i in S
SumItems(term, S) == SumOver(term, S)

AssignedIdx   == {i \in ItemIdx : ListOf(i) # <<>>}
UnassignedIdx == ItemIdx \ AssignedIdx

\* an assignment list names a participant id nobody has
HasGhost(i) == \E k \in DOMAIN ListOf(i) : ListOf(i)[k] \notin ParticipantIds

\* C1 as stated: for every item list, participant list (the empty one too)
\* and assignment mapping, the entries of the breakdown sum to the bill total.
C1_SumEqualsTotalAlways ==
    Rendered => SumValues(costs) = Unit * totalBill

\* C1 as amended: with at least one participant the entries of the
\* breakdown (those of ids that are no participant's included) sum to the
\* bill total; with no participant they sum to the prices of the items that
\* have a non-empty assignment list, the others being left undistributed.
C1_SumEqualsTotal ==
    Rendered =>
        /\ totalBill = SumItems([i \in ItemIdx |-> PriceOf(i)], ItemIdx)
        /\ NumParticipants > 0 => SumValues(costs) = Unit * totalBill
        /\ NumParticipants = 0 =>
              SumValues(costs) =
                 Unit * SumItems([i \in ItemIdx |-> PriceOf(i)], AssignedIdx)

C1_Witness ==
    /\ Rendered
    /\ NumParticipants = 2
    /\ \E i \in AssignedIdx : Len(ListOf(i)) = 2 /\ HasGhost(i) /\ PriceOf(i) = 1
    /\ UnassignedIdx # {}
    /\ SumValues(costs) = Unit * totalBill

\* C2: when items and participants are non-empty and every item is assigned
\* to exactly one existing participant, the breakdown sums to the bill total
\* and each participant owes the sum of the prices of their items.
EachItemHasOneOwner ==
    \A i \in ItemIdx : Len(ListOf(i)) = 1 /\ ListOf(i)[1] \in ParticipantIds

NothingAssigned ==
    \A i \in ItemIdx : ListOf(i) = <<>> /\ ~extractedItems[i].isShared

C3_EqualSplit ==
    (Rendered /\ NumParticipants >= 1 /\ NothingAssigned) =>
        /\ DOMAIN costs = ParticipantIds
        /\ \A p \in ParticipantIds : costs[p] * NumParticipants = Unit * totalBill

\* C4: an item flagged isShared is split equally over all participants
\* whatever its assignment list: it gives price / N to every participant and
\* nothing more to the participants on its list.
PooledC4(i) == extractedItems[i].isShared \/ ListOf(i) = <<>>

OwedC4(p) ==
    SumItems([i \in ItemIdx |->
                 IF PooledC4(i)
                 THEN Div(PriceOf(i), NumParticipants)
                 ELSE Count(ListOf(i), p) * Div(PriceOf(i), Len(ListOf(i)))],
             ItemIdx)

C4_SharedSplitOverAll ==
    Rendered => \A p \in ParticipantIds : costs[p] = OwedC4(p)

\* C5: a participant id on an assignment list that is no current
\* participant's gets no credit (no entry or a zero entry), and the item is
\* split as if that id were not on the list.
KnownOf(i) == SelectSeq(ListOf(i), LAMBDA id : id \in ParticipantIds)

OwedC5(p) ==
    SumItems([i \in ItemIdx |->
                 IF KnownOf(i) = <<>>
                 THEN Div(PriceOf(i), NumParticipants)
                 ELSE Count(KnownOf(i), p) * Div(PriceOf(i), Len(KnownOf(i)))],
             ItemIdx)

C5_UnknownIdIgnored ==
    Rendered =>
        /\ \A id \in DOMAIN costs \ ParticipantIds : costs[id] = 0
        /\ \A p \in ParticipantIds : costs[p] = OwedC5(p)

\* C6: with no participants and at least one item the breakdown is empty or
\* has only zero entries, for every assignment mapping.
C6_NoParticipantsAllZero ==
    (Rendered /\ NumParticipants = 0 /\ ItemIdx # {}) =>
        \A id \in DOMAIN costs : costs[id] = 0

----------------------------------------------------------------------------
\* One invocation of processBillImage

Prefix     == "Failed to process bill image: "
NotConfigured == "Gemini API key not configured. Please add your API key in the config file."
ReadFailed == "Failed to read image file"

\* return { items: billItems }
Return(items) ==
    /\ result' = [ok |-> TRUE, items |-> items, message |-> <<>>]
    /\ pc' = "done"

\* Variant of Throw: the error is rethrown as it is, without the prefix.
ThrowUnwrapped(cause) ==
    /\ result' = [ok |-> FALSE, items |-> <<>>, message |-> <<cause>>]
    /\ pc' = "done"

\* throw new Error(cause), caught by the catch of lines 171-174 / 336-339,
\* which rethrows with the prefix
Throw(cause) ==
    /\ result' = [ok |-> FALSE, items |-> <<>>, message |-> <<Prefix, cause>>]
    /\ pc' = "done"

\* Variant of KeyConfigured: the placeholder is taken for a key.
KeyPresent(key) == key # "absent"

\* !(!CONFIG.GEMINI_API_KEY || CONFIG.GEMINI_API_KEY === 'YOUR_GEMINI_API_KEY')
KeyConfigured(key) == key # "absent" /\ key # "placeholder"

InitExtract ==
    /\ appStep = "upload_participants"
    /\ billImageUri = "uri"
    /\ isLoading = TRUE
    /\ extractedItems = <<>>
    /\ participants = <<Participant(1)>>
    /\ itemAssignments = EmptyObj
    /\ memo = "stale" /\ totalBill = 0 /\ costs = EmptyObj
    /\ schema \in {"A", "B"}
    /\ apiKey \in {"absent", "placeholder", "valid"}
    /\ fileOk \in BOOLEAN
    /\ pc = "checkKey" /\ text = <<>> /\ parsed = NotParsed /\ result = NoResult
    /\ fileReads = 0 /\ modelCalls = 0
    /\ view = Snapshot /\ now = 1 /\ outstanding = 1

\* lines 59-61, 235-237
CheckKey ==
    /\ pc = "checkKey"
    /\ IF KeyConfigured(apiKey) THEN pc' = "readFile" /\ UNCHANGED result
                                ELSE Throw(NotConfigured)
    /\ UNCHANGED <<uiVars, memoVars, schema, apiKey, fileOk, text, parsed,
                   fileReads, modelCalls>>

\* getBase64FromUri
ReadFile ==
    /\ pc = "readFile"
    /\ fileReads' = fileReads + 1
    /\ IF fileOk THEN pc' = "callModel" /\ UNCHANGED result
                 ELSE Throw(ReadFailed)
    /\ UNCHANGED <<uiVars, memoVars, schema, apiKey, fileOk, text, parsed,
                   modelCalls>>

\* model.generateContent and response.text(): the service answers with some
\* text of T, or the call fails
CallModelFrom(T) ==
    /\ pc = "callModel"
    /\ modelCalls' = modelCalls + 1
    /\ \/ \E t \in T : text' = t /\ pc' = "parse" /\ UNCHANGED result
       \/ Throw("NetworkError") /\ UNCHANGED text
    /\ UNCHANGED <<uiVars, memoVars, schema, apiKey, fileOk, parsed, fileReads>>

CallModel == CallModelFrom(Texts)

\* the values taken when only plain bills are looked at: items of the lowest
\* price without flags, no tax fields
PlainItem(e) == e.tag = "item" /\ e.price = Least(Prices) /\ e.isTax = "absent"

AppValue(v) ==
    /\ v.kind \in {"array", "object"}
    /\ \A i \in DOMAIN v.elems : PlainItem(v.elems[i])
    /\ v.items.tag \in {"absent", "array"}
    /\ \A i \in DOMAIN v.items.elems : PlainItem(v.items.elems[i])
    /\ v.cgst = AbsentTax /\ v.sgst = AbsentTax

\* lines 143-153, 313-325; the reply denotes one of its values, one of its
\* plain values when plainOnly
ParseWhere(plainOnly) ==
    /\ pc = "parse"
    /\ LET r == ParseResponse(schema, text)
       IN  IF r.ok
           THEN /\ \E v \in {w \in ValuesOf(schema, r) : plainOnly => AppValue(w)} : parsed' = v
                /\ pc' = "normalize"
                /\ UNCHANGED result
           ELSE /\ Throw(r.cause)
                /\ parsed' = [NotParsed EXCEPT !.span = r.span]
    /\ UNCHANGED <<uiVars, memoVars, schema, apiKey, fileOk, text,
                   fileReads, modelCalls>>

Parse == ParseWhere(FALSE)

\* lines 155-170, 327-335
Normalize ==
    /\ pc = "normalize"
    /\ IF schema = "A"
       THEN IF ThrowsA(parsed) THEN Throw("TypeError")
            ELSE \E bill \in BillsA(parsed) : Return(bill)
       ELSE IF ThrowsB(parsed) THEN Throw("TypeError")
            ELSE Return(BillB(parsed))
    /\ UNCHANGED <<uiVars, memoVars, schema, apiKey, fileOk, text, parsed,
                   fileReads, modelCalls>>

NextExtract == CheckKey \/ ReadFile \/ CallModel \/ Parse \/ Normalize

SpecExtract == InitExtract /\ [][NextExtract]_vars

----------------------------------------------------------------------------
\* Vocabulary of the extractor's properties

Finished == pc = "done"

\* the items array of the parsed response, [] when it has none
ParsedItems == IF parsed.kind = "object" /\ parsed.items.tag = "array"
               THEN parsed.items.elems ELSE <<>>

\* the parse step has been taken on the reply
ParseTaken ==
    \/ pc = "normalize"
    \/ Finished /\ parsed.kind # "none"
    \/ Finished /\ ~result.ok /\ result.message[2] \in {ParseFailed, "SyntaxError"}

ParseSucceeded == parsed.kind # "none"

\* The first well-formed bracket-delimited structure of the text, of the
\* form the version looks for: the leftmost opening bracket at which one
\* complete value starts, up to the bracket that closes it.
WellFormedStarts(s, open) == {a \in Positions(s, open) : ParseValue(s, a) # 0}

FirstWellFormed(s, open) ==
    IF WellFormedStarts(s, open) = {} THEN NoSpan
    ELSE LET a == Least(WellFormedStarts(s, open))
         IN  <<a, ParseValue(s, a) - 1>>

\* C7: schema A with n >= 1 items gives every item the price
\* input price + (cgst + sgst) / n rounded to whole cents (an absent tax
\* counting as zero); with n = 0 the bill is empty.
C7_TaxSharePerItem ==
    (Finished /\ schema = "A" /\ result.ok) =>
        LET n == Len(ParsedItems)
        IN  /\ Len(result.items) = n
            /\ \A i \in 1 .. n :
                 2 * Abs(n * result.items[i].price
                           - (n * ParsedItems[i].price + parsed.cgst.val + parsed.sgst.val))
                    <= n

C7_Witness ==
    /\ Finished /\ schema = "A" /\ result.ok
    /\ Len(ParsedItems) = 2
    /\ parsed.cgst = Tax("num", 1) /\ parsed.sgst = Tax("num", 3)
    /\ ParsedItems[1].price = 1 /\ result.items[1].price = 3
    /\ ParsedItems[2].price = 2 /\ result.items[2].price = 4

\* C8: the whole reply is parsed first; when that fails, the first
\* well-formed bracket-delimited structure in the reply is parsed, so that
\* a JSON structure between noise is extracted; when there is none, the
\* extraction fails with a parse error.
C8_FirstWellFormedParsed ==
    ParseTaken =>
        IF JSONParse(text).ok
        THEN ParseSucceeded /\ parsed.span = <<1, Len(text)>>
        ELSE IF FirstWellFormed(text, OpenOf(schema)) # NoSpan
        THEN ParseSucceeded /\ parsed.span = FirstWellFormed(text, OpenOf(schema))
        ELSE ~ParseSucceeded /\ Finished /\ ~result.ok

\* C9: a reply that parses as JSON never makes the extraction fail: an
\* items field that is absent or no array gives the empty bill.
C9_ParsedNeverFails ==
    (Finished /\ ParseSucceeded) =>
        /\ result.ok
        /\ (schema = "A" /\ ParsedItems = <<>>) => result.items = <<>>

\* C10: with the API key absent or the placeholder, the image file is never
\* read and the model service never called, and the invocation ends with the
\* configuration error.
C10_NoKeyNoCall ==
    apiKey \in {"absent", "placeholder"} =>
        /\ fileReads = 0
        /\ modelCalls = 0
        /\ pc \in {"checkKey", "done"}
        /\ Finished => (~result.ok /\ result.message = <<Prefix, NotConfigured>>)

C10_Witness ==
    /\ apiKey = "placeholder"
    /\ Finished
    /\ result.message = <<Prefix, NotConfigured>>
    /\ fileReads = 0 /\ modelCalls = 0

\* C11: every failure inside processBillImage reaches the caller as one
\* error whose message starts with the prefix, a success is returned only
\* when every stage succeeded, and the model service is called at most once
\* in an invocation.
Causes == {NotConfigured, ReadFailed, "NetworkError", ParseFailed,
           "SyntaxError", "TypeError"}

C11_FailuresSurfaceOnce ==
    /\ modelCalls <= 1
    /\ Finished =>
         /\ result.ok =>
              /\ apiKey = "valid" /\ fileOk
              /\ fileReads = 1 /\ modelCalls = 1
              /\ ParseResponse(schema, text).ok
              /\ ~(IF schema = "A" THEN ThrowsA(parsed) ELSE ThrowsB(parsed))
         /\ ~result.ok =>
              /\ Len(result.message) = 2
              /\ result.message[1] = Prefix
              /\ result.message[2] \in Causes

C11_Witness ==
    /\ Finished /\ ~result.ok
    /\ result.message = <<Prefix, "SyntaxError">>
    /\ modelCalls = 1 /\ fileReads = 1

----------------------------------------------------------------------------
\* SplitShareApp: the event handlers
\*
\* A handler is a closure of the render that created it: it reads the state
\* that render showed (view) and queues its updates, which are applied to
\* the state in order.  An update given as a function (prev => ...) reads
\* the state as it is when the update is applied.

\* the names typed into the name field: two, so that a name can be met
\* again and can differ from one that was added
Names == {1, 2}

\* the JavaScript thread is between tasks: nothing runs, or processBillImage
\* waits for the file or for the model service
JsIdle == pc \in {"idle", "readFile", "callModel"}

Includes(list, x) == \E k \in DOMAIN list : list[k] = x

Without(list, x) == SelectSeq(list, LAMBDA y : y # x)

\* handleImageUpload, handleCameraCapture: an image was picked
handleImagePick ==
    /\ JsIdle
    /\ view.appStep = "upload_participants"
    /\ billImageUri' = "uri"
    /\ UNCHANGED <<appStep, extractedItems, participants, itemAssignments,
                   isLoading, now, outstanding, memoVars, extractVars>>

\* t is what Date.now() returns, a reading not before the last one
handleAddParticipant(name, t) ==
    /\ JsIdle
    /\ view.appStep = "upload_participants"
    /\ Len(view.participants) < MaxParticipants
    /\ t >= now
    /\ IF \A i \in DOMAIN view.participants : view.participants[i].name # name
       THEN /\ participants' = Append(view.participants, [id |-> t, name |-> name])
            /\ now' = t
       ELSE UNCHANGED <<participants, now>>
    /\ UNCHANGED <<appStep, billImageUri, extractedItems, itemAssignments,
                   isLoading, outstanding, memoVars, extractVars>>

\* Variant of handleRemoveParticipant: the assignments are left as they are.
handleRemoveParticipantOnly(id) ==
    /\ JsIdle
    /\ view.appStep = "upload_participants"
    /\ \E i \in DOMAIN view.participants : view.participants[i].id = id
    /\ participants' = SelectSeq(view.participants, LAMBDA q : q.id # id)
    /\ UNCHANGED <<appStep, billImageUri, extractedItems, itemAssignments,
                   isLoading, now, outstanding, memoVars, extractVars>>

handleRemoveParticipant(id) ==
    /\ JsIdle
    /\ view.appStep = "upload_participants"
    /\ \E i \in DOMAIN view.participants : view.participants[i].id = id
    /\ participants' = SelectSeq(view.participants, LAMBDA q : q.id # id)
    /\ itemAssignments' = [k \in DOMAIN view.itemAssignments |->
                              Without(view.itemAssignments[k], id)]
    /\ UNCHANGED <<appStep, billImageUri, extractedItems, isLoading, now,
                   outstanding, memoVars, extractVars>>

\* Variant of ProcessDisabled: isLoading does not disable the button.
ProcessDisabledNoBusy(v) ==
    v.billImageUri = "null" \/ Len(v.participants) = 0

\* disabled={isLoading || !billImageUri || participants.length === 0}
ProcessDisabled(v) ==
    v.isLoading \/ v.billImageUri = "null" \/ Len(v.participants) = 0

\* handleProcessBill up to its await: the guards (an alert and nothing else
\* when one rejects), setIsLoading(true) and the call of extractBillItems,
\* which starts processBillImage
handleProcessBill ==
    /\ JsIdle
    /\ view.appStep = "upload_participants"
    /\ IF view.billImageUri = "null" \/ Len(view.participants) = 0
       THEN UNCHANGED <<isLoading, outstanding, extractVars>>
       ELSE /\ outstanding < MaxRequests
            /\ isLoading' = TRUE
            /\ outstanding' = outstanding + 1
            /\ pc' = "checkKey"
            /\ text' = <<>> /\ parsed' = NotParsed /\ result' = NoResult
            /\ fileReads' = 0 /\ modelCalls' = 0
            /\ UNCHANGED <<schema, apiKey, fileOk>>
    /\ UNCHANGED <<appStep, billImageUri, extractedItems, participants,
                   itemAssignments, now, memoVars>>

\* Variant of itemsWithIds: every item gets the clock's reading as its id.
itemsWithClockIds(items, clock) ==
    [i \in DOMAIN items |-> [items[i] EXCEPT !.id = clock]]

\* result.items.map(item => ({ ...item, id: item.id || Date.now().toString() })):
\* an id is replaced when it is the empty string, which no number prints as
itemsWithIds(items, clock) == items

\* itemsWithIds.forEach(item => initialAssignments[item.id] = [])
initialAssignments(items) == [k \in {items[i].id : i \in DOMAIN items} |-> <<>>]

\* Variant of ProcessBillSettles: a failure also clears the previous bill.
ProcessBillSettlesClearing ==
    /\ pc = "done"
    /\ IF result.ok
       THEN /\ extractedItems' = itemsWithIds(result.items, now)
            /\ itemAssignments' = initialAssignments(itemsWithIds(result.items, now))
            /\ appStep' = "assign_items"
       ELSE /\ extractedItems' = <<>>
            /\ itemAssignments' = EmptyObj
            /\ UNCHANGED appStep
    /\ isLoading' = FALSE
    /\ outstanding' = outstanding - 1
    /\ pc' = IF outstanding > 1 THEN "checkKey" ELSE "idle"
    /\ text' = <<>> /\ parsed' = NotParsed /\ result' = NoResult
    /\ fileReads' = 0 /\ modelCalls' = 0
    /\ UNCHANGED <<billImageUri, participants, now, memoVars,
                   schema, apiKey, fileOk>>

\* handleProcessBill after its await: the result or the error is applied,
\* then the finally block runs
ProcessBillSettles ==
    /\ pc = "done"
    /\ IF result.ok
       THEN /\ extractedItems' = itemsWithIds(result.items, now)
            /\ itemAssignments' = initialAssignments(itemsWithIds(result.items, now))
            /\ appStep' = "assign_items"
       ELSE UNCHANGED <<extractedItems, itemAssignments, appStep>>
    /\ isLoading' = FALSE
    /\ outstanding' = outstanding - 1
    /\ pc' = IF outstanding > 1 THEN "checkKey" ELSE "idle"
    /\ text' = <<>> /\ parsed' = NotParsed /\ result' = NoResult
    /\ fileReads' = 0 /\ modelCalls' = 0
    /\ UNCHANGED <<billImageUri, participants, now, memoVars,
                   schema, apiKey, fileOk>>

handleItemAssignmentChange(itemId, participantId, checked) ==
    LET currentAssignments == Get(itemAssignments, itemId, <<>>)
    IN  /\ checked => Len(currentAssignments) < MaxAssign
        /\ itemAssignments' =
              Put(itemAssignments, itemId,
                  IF checked THEN Append(currentAssignments, participantId)
                             ELSE Without(currentAssignments, participantId))
        /\ UNCHANGED <<appStep, billImageUri, extractedItems, participants,
                       isLoading, now, outstanding, memoVars, extractVars>>

\* a press on the checkbox of participant j under item i, lines 313-323
pressCheckbox(i, j) ==
    /\ JsIdle
    /\ view.appStep = "assign_items"
    /\ i \in DOMAIN view.extractedItems
    /\ j \in DOMAIN view.participants
    /\ LET itemId == view.extractedItems[i].id
           pId    == view.participants[j].id
       IN  handleItemAssignmentChange(
               itemId, pId, ~Includes(Get(view.itemAssignments, itemId, <<>>), pId))

\* "Back to Upload"
pressBack ==
    /\ JsIdle
    /\ view.appStep = "assign_items"
    /\ appStep' = "upload_participants"
    /\ UNCHANGED <<billImageUri, extractedItems, participants, itemAssignments,
                   isLoading, now, outstanding, memoVars, extractVars>>

\* Variant of SummaryDisabled: the button is never disabled.
SummaryNeverDisabled(v) == FALSE

\* disabled={extractedItems.length === 0 || participants.length === 0}
SummaryDisabled(v) == Len(v.extractedItems) = 0 \/ Len(v.participants) = 0

\* "Show Summary"
pressShowSummary ==
    /\ JsIdle
    /\ view.appStep = "assign_items"
    /\ ~SummaryDisabled(view)
    /\ appStep' = "summary"
    /\ UNCHANGED <<billImageUri, extractedItems, participants, itemAssignments,
                   isLoading, now, outstanding, memoVars, extractVars>>

handleStartNewBill ==
    /\ JsIdle
    /\ view.appStep = "summary"
    /\ appStep' = "upload_participants"
    /\ billImageUri' = "null"
    /\ extractedItems' = <<>>
    /\ participants' = <<>>
    /\ itemAssignments' = EmptyObj
    /\ isLoading' = FALSE
    /\ UNCHANGED <<now, outstanding, memoVars, extractVars>>

----------------------------------------------------------------------------
\* SplitShareApp as React runs it: the updates of an event are rendered
\* before the next event is handled, so every handler sees the current state.

\* the replies the model service gives in the runs of the app
AppTexts == {<<"x">>, <<"{", "v", "}">>, <<"[", "v", "]">>}

Init ==
    /\ appStep = "upload_participants"
    /\ billImageUri = "null"
    /\ extractedItems = <<>>
    /\ participants = <<>>
    /\ itemAssignments = EmptyObj
    /\ isLoading = FALSE
    /\ view = Snapshot /\ now = 1 /\ outstanding = 0
    /\ memo = "stale" /\ totalBill = 0 /\ costs = EmptyObj
    /\ schema \in {"A", "B"}
    /\ apiKey \in {"absent", "placeholder", "valid"}
    /\ fileOk \in BOOLEAN
    /\ pc = "idle" /\ text = <<>> /\ parsed = NotParsed /\ result = NoResult
    /\ fileReads = 0 /\ modelCalls = 0

\* the render that follows an event
ThenRender(A) == A /\ view' = Snapshot'

ImagePick         == ThenRender(handleImagePick)
AddParticipant    == \E name \in Names, t \in 1 .. MaxClock :
                        ThenRender(handleAddParticipant(name, t))
RemoveParticipant == \E id \in 1 .. MaxClock : ThenRender(handleRemoveParticipant(id))
ProcessBill       == ~ProcessDisabled(view) /\ ThenRender(handleProcessBill)
BillSettles       == ThenRender(ProcessBillSettles)
Checkbox          == \E i \in 1 .. MaxItems, j \in 1 .. MaxParticipants :
                        ThenRender(pressCheckbox(i, j))
Back              == ThenRender(pressBack)
ShowSummary       == ThenRender(pressShowSummary)
StartNewBill      == ThenRender(handleStartNewBill)
ModelReplies      == CallModelFrom(AppTexts)
ParseReply        == ParseWhere(TRUE)

Next ==
    \/ ImagePick \/ AddParticipant \/ RemoveParticipant
    \/ ProcessBill \/ CheckKey \/ ReadFile \/ ModelReplies \/ ParseReply
    \/ Normalize \/ BillSettles
    \/ Checkbox \/ Back \/ ShowSummary \/ StartNewBill

Spec == Init /\ [][Next]_vars

----------------------------------------------------------------------------
\* Properties of the app

\* handleProcessBill resumes after its await and applies what it got
Settles == pc = "done" /\ pc' # "done"

\* C12: the items the extractor returns carry the ids 1, 2, ..., n in array
\* order, and handleProcessBill stores exactly these items and creates one
\* empty assignment entry for each of them and no other entry.
C12_SequentialIdsStored ==
    /\ [](Finished /\ result.ok =>
             \A i \in DOMAIN result.items : result.items[i].id = i)
    /\ [][(Settles /\ result.ok) =>
             /\ extractedItems' = result.items
             /\ DOMAIN itemAssignments' = 1 .. Len(result.items)
             /\ \A k \in DOMAIN itemAssignments' : itemAssignments'[k] = <<>>]_vars

C12_Witness ==
    /\ appStep = "assign_items" /\ pc = "idle"
    /\ Len(extractedItems) = 2
    /\ extractedItems[1].id = 1 /\ extractedItems[2].id = 2
    /\ DOMAIN itemAssignments = {1, 2}
    /\ itemAssignments[1] = <<>> /\ itemAssignments[2] = <<>>

\* the ids of the current items and of the current participants
ItemIdsNow == {extractedItems[i].id : i \in DOMAIN extractedItems}

\* C13: every key of itemAssignments is the id of a current item and every
\* id listed under a key is the id of a current participant; a step that
\* removes a participant leaves their id in no assignment list.
C13_AssignmentsReferToCurrent ==
    /\ [](\A k \in DOMAIN itemAssignments :
             /\ k \in ItemIdsNow
             /\ \A j \in DOMAIN itemAssignments[k] :
                    itemAssignments[k][j] \in ParticipantIds)
    /\ [][\A id \in ParticipantIds \ ParticipantIds' :
             \A k \in DOMAIN itemAssignments' :
                ~Includes(itemAssignments'[k], id)]_vars

\* back in the upload step with a bill whose items are assigned, where the
\* remove button of an assigned participant is shown
C13_Witness ==
    /\ appStep = "upload_participants" /\ view = Snapshot
    /\ Len(extractedItems) = 2 /\ Len(participants) = 1
    /\ itemAssignments[1] = <<participants[1].id>>
    /\ itemAssignments[2] = <<>>

\* C14: at most one extraction request is outstanding; a request starts only
\* when none is pending, and isLoading is true exactly while one is.
C14_OneRequestOutstanding ==
    /\ [](outstanding <= 1 /\ (isLoading <=> outstanding = 1))
    /\ [][outstanding' > outstanding => (~isLoading /\ outstanding = 0)]_vars

\* a request waits for the model service and the button is shown disabled
C14_Witness ==
    /\ pc = "callModel" /\ outstanding = 1
    /\ isLoading /\ view.isLoading /\ ProcessDisabled(view)
    /\ view.billImageUri # "null" /\ Len(view.participants) > 0

\* C15: no two current participants have the same id.
C15_ParticipantIdsDistinct ==
    \A i, j \in DOMAIN participants :
        i # j => participants[i].id # participants[j].id

----------------------------------------------------------------------------
\* SplitShareApp when presses on checkboxes arrive together: they are all
\* handled by the closures of the render that was on screen, and the render
\* follows the last of them.

CheckboxBatched == \E i \in 1 .. MaxItems, j \in 1 .. MaxParticipants :
                      pressCheckbox(i, j) /\ UNCHANGED view

Rerender ==
    /\ JsIdle
    /\ view # Snapshot
    /\ view' = Snapshot
    /\ UNCHANGED <<stateVars, now, outstanding, memoVars, extractVars>>

NextBatched == Next \/ CheckboxBatched \/ Rerender

SpecBatched == Init /\ [][NextBatched]_vars

\* C16: a participant id occurs at most once in an item's assignment list,
\* so the breakdown counts one share per assigned participant.
C16_AssignmentIsSet ==
    \A k \in DOMAIN itemAssignments :
        \A a, b \in DOMAIN itemAssignments[k] :
            a # b => itemAssignments[k][a] # itemAssignments[k][b]

\* C17: in the summary step there is at least one item and one participant:
\* the step is entered only from assign_items with both lists non-empty, and
\* while it lasts neither list changes.
C17_SummaryHasItemsAndParticipants ==
    /\ [](appStep = "summary" =>
             Len(extractedItems) > 0 /\ Len(participants) > 0)
    /\ [][(appStep # "summary" /\ appStep' = "summary") =>
             /\ appStep = "assign_items"
             /\ Len(extractedItems) > 0 /\ Len(participants) > 0]_vars
    /\ [][(appStep = "summary" /\ appStep' = "summary") =>
             UNCHANGED <<extractedItems, participants>>]_vars

C17_Witness ==
    /\ appStep = "summary" /\ view = Snapshot
    /\ Len(extractedItems) = 1 /\ Len(participants) = 2
    /\ itemAssignments[extractedItems[1].id] = <<>>

\* C18: a failed extraction changes nothing but isLoading, which returns to
\* false; a request starts only with an image and a participant, so a press
\* the guards reject changes nothing.
C18_FailureLeavesBill ==
    /\ [][(Settles /\ ~result.ok) =>
             /\ UNCHANGED <<appStep, extractedItems, itemAssignments,
                             billImageUri, participants>>
             /\ isLoading /\ ~isLoading']_vars
    /\ [][(isLoading' /\ ~isLoading) =>
             /\ billImageUri # "null" /\ Len(participants) > 0
             /\ UNCHANGED <<appStep, extractedItems, itemAssignments,
                             billImageUri, participants>>]_vars

\* a second extraction has failed on a bill that was extracted and assigned
\* before, and the failure is about to be applied
C18_Witness ==
    /\ Finished /\ ~result.ok /\ isLoading
    /\ appStep = "upload_participants"
    /\ Len(extractedItems) = 2
    /\ \E k \in DOMAIN itemAssignments : itemAssignments[k] # <<>>

====
